---- MODULE Spec2Model ----
(***************************************************************************)
(* The creative-suite front end: the App shell with its three tabs, the    *)
(* ImageGenerator (single image and storyboard), the ImageEditor and the   *)
(* Chatbot, together with the service functions they call                  *)
(* (generateImage, generateStoryboardScene, editImage, createChatSession). *)
(*                                                                         *)
(* A React component is its useState cells; an async handler is the step   *)
(* that runs up to its first await, followed by one step per settled       *)
(* promise.  The external generative service is an oracle: every call      *)
(* settles with a response drawn from a small set, or throws.              *)
(* Strings are TLA+ strings, built and cut the way the code does.          *)
(***************************************************************************)
EXTENDS Integers, Sequences, FiniteSets, TLC

(***************************************************************************)
(* Bounds of the model.                                                    *)
(***************************************************************************)
\* scenes the storyboard list may grow to
MaxScenes == 2
\* messages a chat transcript may grow to
MaxTranscript == 4

(***************************************************************************)
(* JavaScript values.                                                      *)
(***************************************************************************)
\* null | T is a sequence of length 0 or 1
Null == <<>>
Some(v) == <<v>>
IsNull(o) == o = Null
Val(o) == o[1]

Min(a, b) == IF a < b THEN a ELSE b

\* String.prototype.substring(0, n)
Substring0(s, n) == IF Len(s) = 0 THEN s ELSE SubSeq(s, 1, Min(n, Len(s)))

RECURSIVE TrimStart(_)
TrimStart(s) ==
  IF Len(s) > 0 /\ SubSeq(s, 1, 1) = " "
  THEN TrimStart(SubSeq(s, 2, Len(s)))
  ELSE s

RECURSIVE TrimEnd(_)
TrimEnd(s) ==
  IF Len(s) > 0 /\ SubSeq(s, Len(s), Len(s)) = " "
  THEN TrimEnd(SubSeq(s, 1, Len(s) - 1))
  ELSE s

\* String.prototype.trim()
Trim(s) == TrimEnd(TrimStart(s))

\* err.message || 'An unexpected error occurred.'
MessageOrDefault(msg) == IF msg = "" THEN "An unexpected error occurred." ELSE msg

(***************************************************************************)
(* Inputs the user and the environment may supply.                         *)
(***************************************************************************)
Tabs == {"Generate", "Edit", "Chat"}

\* two scene texts that agree on their first 20 characters, and a blank one
SceneA == "a hero discovers a glowing orb"
SceneB == "a hero discovers a glass door"
SceneInputs == {"", " ", SceneA, SceneB}
GenPromptInputs == {"", " ", "a cat"}
GenRatioInputs == {"16:9", "1:1"}
GenModes == {"single", "storyboard"}
CharacterFiles == {"hero.png"}

EdPromptInputs == {"", " ", "add a retro filter"}
EdRatioInputs == {"original", "1:1"}
SourceFiles == {"photo.png", "other.png"}
ReferenceFiles == {"style.png"}

ChatInputs == {"", " ", "hello", "thanks"}

\* what process.env.API_KEY may hold when the service module is loaded:
\* nothing, the empty string, or a key
ApiKeys == {Null, Some(""), Some("key")}

\* what fileToBase64 rejects with: an error with or without a message
EncodingFailures == {"", "EncodingError"}

(***************************************************************************)
(* State.                                                                  *)
(***************************************************************************)
VARIABLES
  API_KEY,            \* process.env.API_KEY (null | string)
  activeTab,          \* App: the tab whose component is mounted ("" while no App)
  genPrompt,          \* ImageGenerator: prompt
  storyboardPrompts,  \* ImageGenerator: storyboardPrompts
  genAspectRatio,     \* ImageGenerator: aspectRatio
  generatedImages,    \* ImageGenerator: generatedImages (null | string[])
  genIsLoading,       \* ImageGenerator: isLoading
  genError,           \* ImageGenerator: error (null | string)
  mode,               \* ImageGenerator: mode
  characterImages,    \* ImageGenerator: characterImages, two slots (null | File)
  genBatch,           \* the running (or last) handleGenerate invocation
  edPrompt,           \* ImageEditor: prompt
  edAspectRatio,      \* ImageEditor: aspectRatio
  originalImage,      \* ImageEditor: originalImage (null | File)
  referenceImage,     \* ImageEditor: referenceImage (null | File)
  editedImages,       \* ImageEditor: editedImages (null | string[])
  edIsLoading,        \* ImageEditor: isLoading
  edError,            \* ImageEditor: error (null | string)
  edBatch,            \* the running (or last) handleEdit invocation
  chat,               \* Chatbot: chat (null | Chat)
  messages,           \* Chatbot: messages
  userInput,          \* Chatbot: userInput
  chatIsLoading,      \* Chatbot: isLoading
  chatPending,        \* the chat.sendMessage calls in flight: the text of each
  chatSettled         \* how the last sendMessage settled: none | reply | throws

genVars == <<genPrompt, storyboardPrompts, genAspectRatio, generatedImages,
             genIsLoading, genError, mode, characterImages, genBatch>>

edVars == <<edPrompt, edAspectRatio, originalImage, referenceImage, editedImages,
            edIsLoading, edError, edBatch>>

chatVars == <<chat, messages, userInput, chatIsLoading, chatPending, chatSettled>>

vars == <<API_KEY, activeTab, genVars, edVars, chatVars>>

(***************************************************************************)
(* geminiService: module initialisation.                                   *)
(***************************************************************************)
\* the check skipped: the client is built with whatever the variable holds
ModuleLoadsUnchecked(key) == TRUE

\* lines 3-5: `if (!process.env.API_KEY) throw`; undefined and "" are falsy.
\* When the module throws while it is loaded, nothing that imports it runs:
\* no component is mounted and none of its exports can be called.
ModuleLoads(key) == ~IsNull(key) /\ Val(key) # ""

\* line 4
ModuleError(key) ==
  IF ModuleLoads(key) THEN Null ELSE Some("API_KEY environment variable not set")

(***************************************************************************)
(* geminiService: generateImage and generateStoryboardScene.               *)
(***************************************************************************)
NumberOfImages == 4

DataUrl(bytes) == "data:image/png;base64," \o bytes

\* The bytes of the image the service draws for a request: the model names an
\* image after the request it answers, so that a result can be traced to it.
ImageOf(request) == "<" \o request \o ">"

\* what ai.models.generateImages may answer to a prompt: it throws, it answers
\* without generatedImages, or it answers with 0..numberOfImages images
GenerateImagesResponses(prompt) ==
  {[kind |-> "throws", images |-> <<>>], [kind |-> "absent", images |-> <<>>]}
  \cup {[kind |-> "images", images |-> [i \in 1..n |-> ImageOf(prompt)]] :
          n \in 0..NumberOfImages}

GenerateImageError == "Failed to generate image. Please check the console for details."

\* the promise generateImage returns, settled: [ok, value]
generateImage(response) ==
  IF response.kind = "images" /\ Len(response.images) > 0
  THEN [ok |-> TRUE, value |-> [i \in 1..Len(response.images) |-> DataUrl(response.images[i])]]
  ELSE [ok |-> FALSE, value |-> GenerateImageError]

\* what ai.models.generateContent may answer to one image request: it throws,
\* it answers with no image part (blocked), or with one inline image
GenerateContentResponses(request) ==
  {[kind |-> "throws", data |-> ""], [kind |-> "empty", data |-> ""],
   [kind |-> "image", data |-> ImageOf(request)]}

SceneRatioDirective(aspectRatio) ==
  ". The image should have a " \o aspectRatio \o " aspect ratio."

\* the text part generateStoryboardScene sends
SceneFinalPrompt(prompt, aspectRatio) == prompt \o SceneRatioDirective(aspectRatio)

ScenePromptCut == 20

\* a failure message that does not quote the prompt
SceneErrorGeneric(prompt) == "Failed to generate scene. Check console for details."

SceneError(prompt) ==
  "Failed to generate scene: \"" \o Substring0(prompt, ScenePromptCut)
    \o "...\". Check console for details."

\* the promise generateStoryboardScene(prompt, ...) returns, settled
generateStoryboardScene(prompt, response) ==
  IF response.kind = "image"
  THEN [ok |-> TRUE, value |-> DataUrl(response.data)]
  ELSE [ok |-> FALSE, value |-> SceneError(prompt)]

(***************************************************************************)
(* Promise.all over the calls of a batch.  A call is                       *)
(* [status: "pending" | "ok" | "failed", value].                           *)
(***************************************************************************)
PendingCall == [status |-> "pending", value |-> ""]

\* a rejected call issued again instead of rejecting
SettledOrRetried(result) ==
  IF result.ok THEN [status |-> "ok", value |-> result.value] ELSE PendingCall

Settled(result) == [status |-> IF result.ok THEN "ok" ELSE "failed", value |-> result.value]

\* what stays of the promises once the handler awaiting them has ended in its
\* catch: which were pending, fulfilled or rejected (their values are unread)
Unread(calls) == [i \in 1..Len(calls) |-> [status |-> calls[i].status, value |-> ""]]

\* the calls nothing has answered yet
Pending(calls) == {i \in 1..Len(calls) : calls[i].status = "pending"}

\* Promise.allSettled in place of Promise.all: a rejection is not propagated
PromiseAllSettled(calls) ==
  IF \E i \in 1..Len(calls) : calls[i].status = "pending" THEN "pending"
  ELSE "fulfilled"

\* await Promise.all(promises), given what has settled so far: it rejects with
\* the first rejection, and fulfils once every promise has fulfilled
PromiseAll(calls) ==
  IF \E i \in 1..Len(calls) : calls[i].status = "failed" THEN "rejected"
  ELSE IF \E i \in 1..Len(calls) : calls[i].status = "pending" THEN "pending"
  ELSE "fulfilled"

\* results pushed as the promises settle: by completion, not by position
PromiseAllByCompletion(calls, order) ==
  [k \in 1..Len(order) |-> calls[order[k]].value]

\* the array Promise.all fulfils with: one value per promise, by position,
\* whatever the order in which the promises settled
PromiseAllValues(calls, order) == [i \in 1..Len(calls) |-> calls[i].value]

(***************************************************************************)
(* ImageGenerator.                                                         *)
(***************************************************************************)
\* phase: none | invalid | encoding | awaiting | fulfilled | rejected;
\* requests: the prompts handed to the service function, by slot;
\* reads: the character files still to be read; sent: the text part of each
\* request; calls: the promises by slot; order: the slots in completion order
NoGenBatch ==
  [phase |-> "none", mode |-> "single", requests |-> <<>>, ratio |-> "",
   reads |-> 0, sent |-> <<>>, calls |-> <<>>, order |-> <<>>]

GenInit ==
  /\ genPrompt = ""
  /\ storyboardPrompts = <<"">>
  /\ genAspectRatio = "16:9"
  /\ generatedImages = Null
  /\ genIsLoading = FALSE
  /\ genError = Null
  /\ mode = "single"
  /\ characterImages = <<Null, Null>>
  /\ genBatch = NoGenBatch

\* the disabled attribute without its isLoading term
isGenerateDisabledWhileIdleOnly ==
  \/ (mode = "single" /\ Trim(genPrompt) = "")
  \/ (mode = "storyboard"
        /\ \A i \in 1..Len(storyboardPrompts) : Trim(storyboardPrompts[i]) = "")

\* lines 388-390: the Generate button's disabled attribute
isGenerateDisabled ==
  \/ genIsLoading
  \/ (mode = "single" /\ Trim(genPrompt) = "")
  \/ (mode = "storyboard"
        /\ \A i \in 1..Len(storyboardPrompts) : Trim(storyboardPrompts[i]) = "")

\* the single-mode prompt input's onChange
GenSetPrompt(value) ==
  /\ activeTab = "Generate"
  /\ mode = "single"
  /\ ~genIsLoading
  /\ genPrompt' = value
  /\ UNCHANGED <<API_KEY, activeTab, edVars, chatVars, storyboardPrompts, genAspectRatio, generatedImages,
                 genIsLoading, genError, mode, characterImages, genBatch>>

\* the aspect-ratio select's onChange
GenSetAspectRatio(value) ==
  /\ activeTab = "Generate"
  /\ ~genIsLoading
  /\ genAspectRatio' = value
  /\ UNCHANGED <<API_KEY, activeTab, edVars, chatVars, genPrompt, storyboardPrompts, generatedImages,
                 genIsLoading, genError, mode, characterImages, genBatch>>

\* the two mode buttons: never disabled
setMode(m) ==
  /\ activeTab = "Generate"
  /\ mode' = m
  /\ UNCHANGED <<API_KEY, activeTab, edVars, chatVars, genPrompt, storyboardPrompts, genAspectRatio,
                 generatedImages, genIsLoading, genError, characterImages, genBatch>>

handleCharacterFileChange(index, file) ==
  /\ activeTab = "Generate"
  /\ mode = "storyboard"
  /\ ~genIsLoading
  /\ characterImages' = [characterImages EXCEPT ![index] = Some(file)]
  /\ UNCHANGED <<API_KEY, activeTab, edVars, chatVars, genPrompt, storyboardPrompts, genAspectRatio,
                 generatedImages, genIsLoading, genError, mode, genBatch>>

\* the Remove button is rendered over an uploaded character image only
handleRemoveCharacterImage(index) ==
  /\ activeTab = "Generate"
  /\ mode = "storyboard"
  /\ ~genIsLoading
  /\ ~IsNull(characterImages[index])
  /\ characterImages' = [characterImages EXCEPT ![index] = Null]
  /\ UNCHANGED <<API_KEY, activeTab, edVars, chatVars, genPrompt, storyboardPrompts, genAspectRatio,
                 generatedImages, genIsLoading, genError, mode, genBatch>>

handleStoryboardPromptChange(index, value) ==
  /\ activeTab = "Generate"
  /\ mode = "storyboard"
  /\ ~genIsLoading
  /\ index \in 1..Len(storyboardPrompts)
  /\ storyboardPrompts' = [storyboardPrompts EXCEPT ![index] = value]
  /\ UNCHANGED <<API_KEY, activeTab, edVars, chatVars, genPrompt, genAspectRatio, generatedImages,
                 genIsLoading, genError, mode, characterImages, genBatch>>

handleAddScene ==
  /\ activeTab = "Generate"
  /\ mode = "storyboard"
  /\ ~genIsLoading
  /\ Len(storyboardPrompts) < MaxScenes
  /\ storyboardPrompts' = Append(storyboardPrompts, "")
  /\ UNCHANGED <<API_KEY, activeTab, edVars, chatVars, genPrompt, genAspectRatio, generatedImages,
                 genIsLoading, genError, mode, characterImages, genBatch>>

\* storyboardPrompts.filter((_, i) => i !== index)
WithoutIndex(seq, index) ==
  [i \in 1..(Len(seq) - 1) |-> IF i < index THEN seq[i] ELSE seq[i + 1]]

\* the filter without the length check around it
RemoveSceneUnguarded(prompts, index) == WithoutIndex(prompts, index)

\* the body of handleRemoveScene
RemoveScene(prompts, index) ==
  IF Len(prompts) > 1 THEN WithoutIndex(prompts, index) ELSE prompts

\* the trash button of a scene is rendered only while there are several scenes
handleRemoveScene(index) ==
  /\ activeTab = "Generate"
  /\ mode = "storyboard"
  /\ ~genIsLoading
  /\ Len(storyboardPrompts) > 1
  /\ index \in 1..Len(storyboardPrompts)
  /\ storyboardPrompts' = RemoveScene(storyboardPrompts, index)
  /\ UNCHANGED <<API_KEY, activeTab, edVars, chatVars, genPrompt, genAspectRatio, generatedImages,
                 genIsLoading, genError, mode, characterImages, genBatch>>

\* [a-zA-Z0-9]
Alphanumerics ==
  {"a", "b", "c", "d", "e", "f", "g", "h", "i", "j", "k", "l", "m",
   "n", "o", "p", "q", "r", "s", "t", "u", "v", "w", "x", "y", "z",
   "A", "B", "C", "D", "E", "F", "G", "H", "I", "J", "K", "L", "M",
   "N", "O", "P", "Q", "R", "S", "T", "U", "V", "W", "X", "Y", "Z",
   "0", "1", "2", "3", "4", "5", "6", "7", "8", "9"}

\* .replace(/[^a-zA-Z0-9\s]/g, '')
RECURSIVE StripSpecial(_)
StripSpecial(s) ==
  IF Len(s) = 0 THEN s
  ELSE (IF SubSeq(s, 1, 1) \in Alphanumerics \cup {" "} THEN SubSeq(s, 1, 1) ELSE "")
         \o StripSpecial(SubSeq(s, 2, Len(s)))

\* .replace(/\s+/g, '_')
RECURSIVE Underscored(_)
Underscored(s) ==
  IF Len(s) = 0 THEN s
  ELSE IF SubSeq(s, 1, 1) = " "
       THEN "_" \o Underscored(TrimStart(s))
       ELSE SubSeq(s, 1, 1) \o Underscored(SubSeq(s, 2, Len(s)))

FilenameCut == 50

\* handleDownload, line 366: the prompt the file is named after (index from 1)
FilenamePrompt(index) ==
  IF mode = "single" THEN genPrompt
  ELSE IF index <= Len(storyboardPrompts) /\ storyboardPrompts[index] # ""
       THEN storyboardPrompts[index]
       ELSE "storyboard_scene"

\* handleDownload, lines 367-374: link.download for the image in slot index
DownloadName(index) ==
  LET cleaned == Underscored(StripSpecial(Trim(Substring0(FilenamePrompt(index), FilenameCut))))
      filename == IF cleaned = "" THEN "generated_image" ELSE cleaned
      suffix == IF mode = "single" THEN "_" \o ToString(index)
                ELSE "_scene_" \o ToString(index)
  IN filename \o suffix \o ".png"

\* line 562: the label over the image in slot index, if any
SceneLabel(index) ==
  IF mode = "storyboard" THEN Some("Scene " \o ToString(index)) ELSE Null

\* a click on the Download button of a shown result: a file is saved under
\* DownloadName(index); the component's state stays as it is
handleDownload(index) ==
  /\ activeTab = "Generate"
  /\ ~IsNull(generatedImages)
  /\ index \in 1..Len(Val(generatedImages))
  /\ UNCHANGED vars

\* storyboardPrompts.filter(p => p.trim() !== '')
ValidPrompts(prompts) == SelectSeq(prompts, LAMBDA p : Trim(p) # "")

\* the files the for loop of handleGenerate reads
FilesToEncode(images) == Len(SelectSeq(images, LAMBDA f : ~IsNull(f)))

\* a loop awaiting each scene before the next is requested: only the first
\* call is out when the handler first waits
DispatchScenesInTurn(b) ==
  [b EXCEPT !.phase = "awaiting",
            !.sent = [i \in 1..Len(b.requests) |-> SceneFinalPrompt(b.requests[i], b.ratio)],
            !.calls = <<PendingCall>>]

\* validPrompts.map(p => generateStoryboardScene(p, aspectRatio, parts)):
\* every scene call is issued; the batch then awaits Promise.all
DispatchScenes(b) ==
  [b EXCEPT !.phase = "awaiting",
            !.sent = [i \in 1..Len(b.requests) |-> SceneFinalPrompt(b.requests[i], b.ratio)],
            !.calls = [i \in 1..Len(b.requests) |-> PendingCall]]

\* handleGenerate, single mode: the guard `!prompt`
SinglePromptMissing(prompt) == prompt = ""

\* the guard left out
NoValidPromptsUnchecked(valid) == FALSE

\* handleGenerate, storyboard mode: the guard `validPrompts.length === 0`
NoValidPrompts(valid) == Len(valid) = 0

\* handleGenerate up to its first await (lines 319-351)
handleGenerate ==
  /\ generatedImages' = Null
  /\ IF mode = "single"
     THEN IF SinglePromptMissing(genPrompt)
          THEN /\ genError' = Some("Please enter a prompt.")
               /\ genIsLoading' = FALSE
               /\ genBatch' = [NoGenBatch EXCEPT !.phase = "invalid"]
          ELSE /\ genError' = Null
               /\ genIsLoading' = TRUE
               /\ genBatch' = [NoGenBatch EXCEPT !.phase = "awaiting",
                                                 !.requests = <<genPrompt>>,
                                                 !.ratio = genAspectRatio,
                                                 !.sent = <<genPrompt>>,
                                                 !.calls = <<PendingCall>>]
     ELSE IF NoValidPrompts(ValidPrompts(storyboardPrompts))
          THEN /\ genError' = Some("Please enter a prompt for at least one scene.")
               /\ genIsLoading' = FALSE
               /\ genBatch' = [NoGenBatch EXCEPT !.phase = "invalid", !.mode = "storyboard"]
          ELSE /\ genError' = Null
               /\ genIsLoading' = TRUE
               /\ genBatch' =
                    LET b == [NoGenBatch EXCEPT !.phase = "encoding",
                                                !.mode = "storyboard",
                                                !.requests = ValidPrompts(storyboardPrompts),
                                                !.ratio = genAspectRatio,
                                                !.reads = FilesToEncode(characterImages)]
                    IN IF b.reads = 0 THEN DispatchScenes(b) ELSE b
  /\ UNCHANGED <<API_KEY, activeTab, edVars, chatVars, genPrompt, storyboardPrompts, genAspectRatio, mode,
                 characterImages>>

\* a click on the Generate button
ClickGenerate ==
  /\ activeTab = "Generate"
  /\ ~isGenerateDisabled
  /\ handleGenerate

\* await fileToBase64(file) resolves: the part is pushed; after the last file
\* the scene calls are dispatched
CharacterFileRead ==
  /\ activeTab = "Generate"
  /\ genBatch.phase = "encoding"
  /\ LET b == [genBatch EXCEPT !.reads = @ - 1]
     IN genBatch' = IF b.reads = 0 THEN DispatchScenes(b) ELSE b
  /\ UNCHANGED <<API_KEY, activeTab, edVars, chatVars, genPrompt, storyboardPrompts, genAspectRatio,
                 generatedImages, genIsLoading, genError, mode, characterImages>>

\* await fileToBase64(file) rejects: catch and finally of handleGenerate
CharacterFileReadFails(msg) ==
  /\ activeTab = "Generate"
  /\ genBatch.phase = "encoding"
  /\ genBatch' = [genBatch EXCEPT !.phase = "rejected", !.reads = 0]
  /\ genError' = Some(MessageOrDefault(msg))
  /\ genIsLoading' = FALSE
  /\ UNCHANGED <<API_KEY, activeTab, edVars, chatVars, genPrompt, storyboardPrompts, genAspectRatio,
                 generatedImages, mode, characterImages>>

\* the generateImage call settles: lines 331-332, or catch; then finally
GenerateImageSettles ==
  /\ activeTab = "Generate"
  /\ genBatch.phase = "awaiting"
  /\ genBatch.mode = "single"
  /\ \E response \in GenerateImagesResponses(genBatch.sent[1]) :
     LET result == generateImage(response)
     IN /\ genBatch' = [genBatch EXCEPT !.phase = IF result.ok THEN "fulfilled" ELSE "rejected",
                                        !.calls = IF result.ok THEN <<Settled(result)>>
                                                  ELSE Unread(<<Settled(result)>>),
                                        !.order = <<1>>,
                                        !.ratio = "",
                                        !.sent = <<>>]
        /\ generatedImages' = IF result.ok THEN Some(result.value) ELSE generatedImages
        /\ genError' = IF result.ok THEN genError ELSE Some(MessageOrDefault(result.value))
  /\ genIsLoading' = FALSE
  /\ UNCHANGED <<API_KEY, activeTab, edVars, chatVars, genPrompt, storyboardPrompts, genAspectRatio, mode,
                 characterImages>>

\* scene call i settles while handleGenerate awaits Promise.all: the first
\* rejection rejects the await (catch, finally); the last fulfilment fulfils it
\* (setGeneratedImages, finally).  After a rejection the calls still pending
\* stay in flight: nothing reads what they settle with.
SceneSettles(i) ==
  /\ activeTab = "Generate"
  /\ genBatch.mode = "storyboard"
  /\ genBatch.phase = "awaiting"
  /\ i \in 1..Len(genBatch.calls)
  /\ genBatch.calls[i].status = "pending"
  /\ \E response \in GenerateContentResponses(genBatch.sent[i]) :
     LET result == generateStoryboardScene(genBatch.requests[i], response)
         calls == [genBatch.calls EXCEPT ![i] = Settled(result)]
         order == Append(genBatch.order, i)
         rejects == PromiseAll(calls) = "rejected"
         fulfils == PromiseAll(calls) = "fulfilled"
     IN /\ genBatch' = [genBatch EXCEPT !.calls = IF rejects THEN Unread(calls) ELSE calls,
                                        !.order = order,
                                        !.ratio = IF rejects \/ fulfils THEN "" ELSE @,
                                        !.sent = IF rejects \/ fulfils THEN <<>> ELSE @,
                                        !.phase = IF rejects THEN "rejected"
                                                  ELSE IF fulfils THEN "fulfilled" ELSE @]
        /\ generatedImages' = IF fulfils THEN Some(PromiseAllValues(calls, order))
                              ELSE generatedImages
        /\ genError' = IF rejects THEN Some(MessageOrDefault(result.value)) ELSE genError
        /\ genIsLoading' = IF rejects \/ fulfils THEN FALSE ELSE genIsLoading
  /\ UNCHANGED <<API_KEY, activeTab, edVars, chatVars, genPrompt, storyboardPrompts, genAspectRatio, mode,
                 characterImages>>

(***************************************************************************)
(* geminiService: editImage.                                               *)
(***************************************************************************)
NumberOfVariations == 4

EditImageError == "Failed to edit image. Please check the console for details."

\* contentParts: the image, the optional reference image, the text
ContentParts(prompt, image, reference) ==
  [image |-> image, reference |-> reference, text |-> prompt]

\* the request as the service sees it, for naming the image it answers with
PartsText(parts) ==
  "[" \o parts.image \o "]"
    \o (IF IsNull(parts.reference) THEN "" ELSE "[" \o Val(parts.reference) \o "]")
    \o parts.text

\* a generateContent promise of editImage, settled: it rejects when the call
\* throws and fulfils with whatever response came
EditCallSettled(response) ==
  [status |-> CASE response.kind = "throws" -> "failed"
                [] response.kind = "empty" -> "empty"
                [] OTHER -> "ok",
   value |-> response.data]

\* a fulfilled response carries candidates[0].content.parts[0].inlineData
HasInlineData(call) == call.status = "ok"

\* responses without image data skipped instead of thrown on
editImageUrlsPartial(calls) ==
  [ok |-> TRUE,
   value |-> [i \in 1..Len(SelectSeq(calls, HasInlineData)) |->
                DataUrl(SelectSeq(calls, HasInlineData)[i].value)]]

\* editImage once Promise.all(requests) has fulfilled (lines 101-114)
editImageUrls(calls) ==
  IF /\ \A i \in 1..Len(calls) : HasInlineData(calls[i])
     /\ Len(calls) = NumberOfVariations
  THEN [ok |-> TRUE, value |-> [i \in 1..Len(calls) |-> DataUrl(calls[i].value)]]
  ELSE [ok |-> FALSE, value |-> EditImageError]

(***************************************************************************)
(* ImageEditor.                                                            *)
(***************************************************************************)
\* phase: none | invalid | readingOriginal | readingReference | awaiting |
\* fulfilled | rejected; prompt: the finalPrompt handed to editImage;
\* image, reference: the files captured at the click; request: the parts of
\* every generateContent call; calls: the promises by slot.  A handler that
\* ended in its catch leaves only the phase and the calls behind.
NoParts == [image |-> "", reference |-> Null, text |-> ""]

NoEdBatch ==
  [phase |-> "none", prompt |-> "", image |-> "", reference |-> Null,
   request |-> NoParts, calls |-> <<>>]

EdInit ==
  /\ edPrompt = ""
  /\ edAspectRatio = "original"
  /\ originalImage = Null
  /\ referenceImage = Null
  /\ editedImages = Null
  /\ edIsLoading = FALSE
  /\ edError = Null
  /\ edBatch = NoEdBatch

\* line 191: the Apply Edits button's disabled attribute
isEditDisabled == edIsLoading \/ edPrompt = "" \/ IsNull(originalImage)

\* lines 181 and 187: the prompt input's and the ratio select's disabled attribute
isEditInputDisabled == edIsLoading \/ IsNull(originalImage)

handleFileChange(file) ==
  /\ activeTab = "Edit"
  /\ ~edIsLoading
  /\ originalImage' = Some(file)
  /\ editedImages' = Null
  /\ edError' = Null
  /\ UNCHANGED <<API_KEY, activeTab, genVars, chatVars, edPrompt, edAspectRatio, referenceImage,
                 edIsLoading, edBatch>>

\* the Remove button is rendered over an uploaded image only
handleRemoveOriginalImage ==
  /\ activeTab = "Edit"
  /\ ~edIsLoading
  /\ ~IsNull(originalImage)
  /\ originalImage' = Null
  /\ UNCHANGED <<API_KEY, activeTab, genVars, chatVars, edPrompt, edAspectRatio, referenceImage,
                 editedImages, edIsLoading, edError, edBatch>>

handleReferenceFileChange(file) ==
  /\ activeTab = "Edit"
  /\ ~edIsLoading
  /\ referenceImage' = Some(file)
  /\ UNCHANGED <<API_KEY, activeTab, genVars, chatVars, edPrompt, edAspectRatio, originalImage,
                 editedImages, edIsLoading, edError, edBatch>>

handleRemoveReferenceImage ==
  /\ activeTab = "Edit"
  /\ ~edIsLoading
  /\ ~IsNull(referenceImage)
  /\ referenceImage' = Null
  /\ UNCHANGED <<API_KEY, activeTab, genVars, chatVars, edPrompt, edAspectRatio, originalImage,
                 editedImages, edIsLoading, edError, edBatch>>

EdSetPrompt(value) ==
  /\ activeTab = "Edit"
  /\ ~isEditInputDisabled
  /\ edPrompt' = value
  /\ UNCHANGED <<API_KEY, activeTab, genVars, chatVars, edAspectRatio, originalImage, referenceImage,
                 editedImages, edIsLoading, edError, edBatch>>

EdSetAspectRatio(value) ==
  /\ activeTab = "Edit"
  /\ ~isEditInputDisabled
  /\ edAspectRatio' = value
  /\ UNCHANGED <<API_KEY, activeTab, genVars, chatVars, edPrompt, originalImage, referenceImage,
                 editedImages, edIsLoading, edError, edBatch>>

EditRatioDirective(aspectRatio) ==
  ". Change the aspect ratio of the image to " \o aspectRatio \o "."

\* the directive appended whatever the ratio
EditFinalPromptAlways(prompt, aspectRatio) == prompt \o EditRatioDirective(aspectRatio)

\* lines 69-72
EditFinalPrompt(prompt, aspectRatio) ==
  IF aspectRatio # "original" THEN prompt \o EditRatioDirective(aspectRatio) ELSE prompt

\* handleEdit: the guard `!prompt || !originalImage`
EditInputMissing(prompt, image) == prompt = "" \/ IsNull(image)

\* handleEdit without its setEditedImages(null)
handleEditKeepingResults ==
  /\ IF EditInputMissing(edPrompt, originalImage)
     THEN /\ edError' = Some("Please upload an image and provide an editing prompt.")
          /\ edBatch' = [NoEdBatch EXCEPT !.phase = "invalid"]
          /\ UNCHANGED <<edIsLoading, editedImages>>
     ELSE /\ edIsLoading' = TRUE
          /\ edError' = Null
          /\ editedImages' = editedImages
          /\ edBatch' = [NoEdBatch EXCEPT !.phase = "readingOriginal",
                                          !.prompt = EditFinalPrompt(edPrompt, edAspectRatio),
                                          !.image = Val(originalImage),
                                          !.reference = referenceImage]
  /\ UNCHANGED <<API_KEY, activeTab, genVars, chatVars, edPrompt, edAspectRatio, originalImage,
                 referenceImage>>

\* handleEdit up to its first await (lines 60-75)
handleEdit ==
  /\ IF EditInputMissing(edPrompt, originalImage)
     THEN /\ edError' = Some("Please upload an image and provide an editing prompt.")
          /\ edBatch' = [NoEdBatch EXCEPT !.phase = "invalid"]
          /\ UNCHANGED <<edIsLoading, editedImages>>
     ELSE /\ edIsLoading' = TRUE
          /\ edError' = Null
          /\ editedImages' = Null
          /\ edBatch' = [NoEdBatch EXCEPT !.phase = "readingOriginal",
                                          !.prompt = EditFinalPrompt(edPrompt, edAspectRatio),
                                          !.image = Val(originalImage),
                                          !.reference = referenceImage]
  /\ UNCHANGED <<API_KEY, activeTab, genVars, chatVars, edPrompt, edAspectRatio, originalImage,
                 referenceImage>>

\* a click on the Apply Edits button
ClickEdit ==
  /\ activeTab = "Edit"
  /\ ~isEditDisabled
  /\ handleEdit

\* editImage up to its await: the parts are assembled and the generateContent
\* calls are issued (lines 76-97)
DispatchEdits(b) ==
  [b EXCEPT !.phase = "awaiting",
            !.request = ContentParts(b.prompt, b.image, b.reference),
            !.calls = [i \in 1..NumberOfVariations |-> PendingCall]]

\* await fileToBase64(originalImage.file) resolves
OriginalFileRead ==
  /\ activeTab = "Edit"
  /\ edBatch.phase = "readingOriginal"
  /\ edBatch' = IF IsNull(edBatch.reference)
                THEN DispatchEdits(edBatch)
                ELSE [edBatch EXCEPT !.phase = "readingReference"]
  /\ UNCHANGED <<API_KEY, activeTab, genVars, chatVars, edPrompt, edAspectRatio, originalImage,
                 referenceImage, editedImages, edIsLoading, edError>>

\* await fileToBase64(referenceImage.file) resolves
ReferenceFileRead ==
  /\ activeTab = "Edit"
  /\ edBatch.phase = "readingReference"
  /\ edBatch' = DispatchEdits(edBatch)
  /\ UNCHANGED <<API_KEY, activeTab, genVars, chatVars, edPrompt, edAspectRatio, originalImage,
                 referenceImage, editedImages, edIsLoading, edError>>

\* either read rejects: catch and finally of handleEdit
EditFileReadFails(msg) ==
  /\ activeTab = "Edit"
  /\ edBatch.phase \in {"readingOriginal", "readingReference"}
  /\ edBatch' = [NoEdBatch EXCEPT !.phase = "rejected"]
  /\ edError' = Some(MessageOrDefault(msg))
  /\ edIsLoading' = FALSE
  /\ UNCHANGED <<API_KEY, activeTab, genVars, chatVars, edPrompt, edAspectRatio, originalImage,
                 referenceImage, editedImages>>

\* generateContent call i of editImage settles while Promise.all is awaited.
\* The first rejection rejects the await; the last fulfilment lets editImage
\* map the responses; either way editImage settles, and handleEdit continues
\* (setEditedImages or catch, then finally).
EditCallSettles(i) ==
  /\ activeTab = "Edit"
  /\ edBatch.phase = "awaiting"
  /\ i \in 1..Len(edBatch.calls)
  /\ edBatch.calls[i].status = "pending"
  /\ \E response \in GenerateContentResponses(PartsText(edBatch.request)) :
     LET calls == [edBatch.calls EXCEPT ![i] = EditCallSettled(response)]
         rejects == PromiseAll(calls) = "rejected"
         fulfils == PromiseAll(calls) = "fulfilled"
         result == IF rejects THEN [ok |-> FALSE, value |-> EditImageError]
                   ELSE editImageUrls(calls)
         done == rejects \/ fulfils
     IN /\ edBatch' = IF done /\ ~result.ok
                     THEN [NoEdBatch EXCEPT !.phase = "rejected", !.calls = Unread(calls)]
                     ELSE [edBatch EXCEPT !.calls = calls,
                                          !.phase = IF done THEN "fulfilled" ELSE @]
        /\ editedImages' = IF done /\ result.ok THEN Some(result.value) ELSE editedImages
        /\ edError' = IF done /\ ~result.ok THEN Some(MessageOrDefault(result.value))
                      ELSE edError
        /\ edIsLoading' = IF done THEN FALSE ELSE edIsLoading
  /\ UNCHANGED <<API_KEY, activeTab, genVars, chatVars, edPrompt, edAspectRatio, originalImage,
                 referenceImage>>

(***************************************************************************)
(* Chatbot, and geminiService: createChatSession.                          *)
(***************************************************************************)
\* the Chat handle ai.chats.create returns
createChatSession == "chat"

\* what chat.sendMessage may answer: a reply, or it throws
SendMessageResponses ==
  {[kind |-> "throws", text |-> ""], [kind |-> "reply", text |-> "Sounds great!"]}

ChatApology == "Sorry, I encountered an error. Please try again."

ChatInit ==
  /\ chat = Null
  /\ messages = <<>>
  /\ userInput = ""
  /\ chatIsLoading = FALSE
  /\ chatPending = <<>>
  /\ chatSettled = "none"

\* line 682: the input's disabled attribute
isChatInputDisabled == chatIsLoading \/ IsNull(chat)

\* line 684: the send button's disabled attribute
isSendDisabled == chatIsLoading \/ IsNull(chat) \/ Trim(userInput) = ""

\* the effect without its empty dependency list: it runs after every render
\* and replaces the session
initChatOnEveryRender ==
  /\ activeTab = "Chat"
  /\ chat' = IF IsNull(chat) THEN Some(createChatSession) ELSE Some(Val(chat) \o "+")
  /\ UNCHANGED <<API_KEY, activeTab, genVars, edVars, messages, userInput, chatIsLoading,
                 chatPending, chatSettled>>

\* the mount effect (lines 603-609)
initChat ==
  /\ activeTab = "Chat"
  /\ IsNull(chat)
  /\ chat' = Some(createChatSession)
  /\ UNCHANGED <<API_KEY, activeTab, genVars, edVars, messages, userInput, chatIsLoading,
                 chatPending, chatSettled>>

\* the input's onChange
ChatSetInput(value) ==
  /\ activeTab = "Chat"
  /\ ~isChatInputDisabled
  /\ userInput' = value
  /\ UNCHANGED <<API_KEY, activeTab, genVars, edVars, chat, messages, chatIsLoading,
                 chatPending, chatSettled>>

\* the guard without the trim
SendRefusedUntrimmed(input, session) == input = "" \/ IsNull(session)

\* handleSendMessage: the guard `!userInput.trim() || !chat`
SendRefused(input, session) == Trim(input) = "" \/ IsNull(session)

\* setIsLoading(true) left out
LoadingLeftOff == FALSE

\* setIsLoading(true) of handleSendMessage (line 621)
LoadingWhileSending == TRUE

\* setMessages([message]): the transcript so far is dropped
ReplaceMessages(prev, message) == <<message>>

\* setMessages((prev) => [...prev, message])
AppendMessage(prev, message) == Append(prev, message)

\* the transcript has room for one more exchange
TranscriptRoom == Len(messages) + Len(chatPending) + 2 <= MaxTranscript

\* handleSendMessage up to its await (lines 615-624)
handleSendMessage ==
  IF SendRefused(userInput, chat)
  THEN UNCHANGED vars
  ELSE /\ messages' = AppendMessage(messages, [role |-> "user", text |-> userInput])
       /\ userInput' = ""
       /\ chatIsLoading' = LoadingWhileSending
       /\ chatPending' = Append(chatPending, userInput)
       /\ UNCHANGED <<API_KEY, activeTab, genVars, edVars, chat, chatSettled>>

\* a click on the send button
ClickSend ==
  /\ activeTab = "Chat"
  /\ ~isSendDisabled
  /\ TranscriptRoom
  /\ handleSendMessage

\* Enter pressed in the input (handleKeyPress, lines 639-643)
handleKeyPress ==
  /\ activeTab = "Chat"
  /\ ~isChatInputDisabled
  /\ SendRefused(userInput, chat) \/ TranscriptRoom
  /\ IF ~chatIsLoading THEN handleSendMessage ELSE UNCHANGED vars

\* the catch appending the raw (empty) response text
ModelMessageRaw(response) == [role |-> "model", text |-> response.text]

\* the text of the model message appended when sendMessage settles
ModelMessage(response) ==
  [role |-> "model",
   text |-> IF response.kind = "reply" THEN response.text ELSE ChatApology]

\* setIsLoading(false) at the end of the try block instead of in a finally
SendMessageSettlesNoFinally(k) ==
  /\ activeTab = "Chat"
  /\ k \in 1..Len(chatPending)
  /\ \E response \in SendMessageResponses :
       /\ messages' = AppendMessage(messages, ModelMessage(response))
       /\ chatSettled' = response.kind
       /\ chatIsLoading' = IF response.kind = "throws" THEN chatIsLoading ELSE FALSE
  /\ chatPending' = WithoutIndex(chatPending, k)
  /\ UNCHANGED <<API_KEY, activeTab, genVars, edVars, chat, userInput>>

\* the k-th sendMessage in flight settles: lines 625-626, or catch; then finally
SendMessageSettles(k) ==
  /\ activeTab = "Chat"
  /\ k \in 1..Len(chatPending)
  /\ \E response \in SendMessageResponses :
       /\ messages' = AppendMessage(messages, ModelMessage(response))
       /\ chatSettled' = response.kind
  /\ chatIsLoading' = FALSE
  /\ chatPending' = WithoutIndex(chatPending, k)
  /\ UNCHANGED <<API_KEY, activeTab, genVars, edVars, chat, userInput>>

(***************************************************************************)
(* App.                                                                    *)
(***************************************************************************)
\* a click on another tab of the Header: the shown component is unmounted
\* (its state, and the continuation of any handler it was running, are gone:
\* calls still in flight settle unread) and the chosen one is mounted afresh
setActiveTab(tab) ==
  /\ ModuleLoads(API_KEY)
  /\ tab # activeTab
  /\ activeTab' = tab
  /\ API_KEY' = API_KEY
  /\ genPrompt' = ""
  /\ storyboardPrompts' = <<"">>
  /\ genAspectRatio' = "16:9"
  /\ generatedImages' = Null
  /\ genIsLoading' = FALSE
  /\ genError' = Null
  /\ mode' = "single"
  /\ characterImages' = <<Null, Null>>
  /\ genBatch' = NoGenBatch
  /\ edPrompt' = ""
  /\ edAspectRatio' = "original"
  /\ originalImage' = Null
  /\ referenceImage' = Null
  /\ editedImages' = Null
  /\ edIsLoading' = FALSE
  /\ edError' = Null
  /\ edBatch' = NoEdBatch
  /\ chat' = Null
  /\ messages' = <<>>
  /\ userInput' = ""
  /\ chatIsLoading' = FALSE
  /\ chatPending' = <<>>
  /\ chatSettled' = "none"

Init ==
  /\ API_KEY \in ApiKeys
  /\ activeTab = IF ModuleLoads(API_KEY) THEN "Generate" ELSE ""
  /\ GenInit
  /\ EdInit
  /\ ChatInit

GenUserNext ==
  \/ \E v \in GenPromptInputs : GenSetPrompt(v)
  \/ \E v \in GenRatioInputs : GenSetAspectRatio(v)
  \/ \E m \in GenModes : setMode(m)
  \/ \E i \in 1..2, f \in CharacterFiles : handleCharacterFileChange(i, f)
  \/ \E i \in 1..2 : handleRemoveCharacterImage(i)
  \/ \E i \in 1..MaxScenes, v \in SceneInputs : handleStoryboardPromptChange(i, v)
  \/ handleAddScene
  \/ \E i \in 1..MaxScenes : handleRemoveScene(i)
  \/ \E i \in 1..NumberOfImages : handleDownload(i)

GenAsyncNext ==
  \/ CharacterFileRead
  \/ \E msg \in EncodingFailures : CharacterFileReadFails(msg)
  \/ GenerateImageSettles
  \/ \E i \in 1..MaxScenes : SceneSettles(i)

EdUserNext ==
  \/ \E f \in SourceFiles : handleFileChange(f)
  \/ handleRemoveOriginalImage
  \/ \E f \in ReferenceFiles : handleReferenceFileChange(f)
  \/ handleRemoveReferenceImage
  \/ \E v \in EdPromptInputs : EdSetPrompt(v)
  \/ \E v \in EdRatioInputs : EdSetAspectRatio(v)

EdAsyncNext ==
  \/ OriginalFileRead
  \/ ReferenceFileRead
  \/ \E msg \in EncodingFailures : EditFileReadFails(msg)
  \/ \E i \in 1..NumberOfVariations : EditCallSettles(i)

ChatUserNext ==
  \/ \E v \in ChatInputs : ChatSetInput(v)
  \/ ClickSend
  \/ handleKeyPress

ChatAsyncNext ==
  \/ initChat
  \/ \E k \in 1..MaxTranscript : SendMessageSettles(k)

Next ==
  \/ \E tab \in Tabs : setActiveTab(tab)
  \/ GenUserNext
  \/ ClickGenerate
  \/ GenAsyncNext
  \/ EdUserNext
  \/ ClickEdit
  \/ EdAsyncNext
  \/ ChatUserNext
  \/ ChatAsyncNext

Spec == Init /\ [][Next]_vars

(***************************************************************************)
(* The handlers driven directly.  On the rendered page the Generate and    *)
(* Apply Edits buttons are disabled while their inputs are missing, so the *)
(* validation inside handleGenerate and handleEdit never runs under Spec.  *)
(* SpecCore leaves that part of the disabled attributes out: a submit      *)
(* intent reaches the handler whenever the component is not loading.       *)
(***************************************************************************)
SubmitGenerate ==
  /\ activeTab = "Generate"
  /\ ~genIsLoading
  /\ handleGenerate

SubmitEdit ==
  /\ activeTab = "Edit"
  /\ ~edIsLoading
  /\ handleEdit

NextCore ==
  \/ \E tab \in Tabs : setActiveTab(tab)
  \/ GenUserNext
  \/ SubmitGenerate
  \/ GenAsyncNext
  \/ EdUserNext
  \/ SubmitEdit
  \/ EdAsyncNext
  \/ ChatUserNext
  \/ ChatAsyncNext

SpecCore == Init /\ [][NextCore]_vars

(***************************************************************************)
(* Properties.                                                             *)
(***************************************************************************)
\* the scene calls of the batch that rejected
FailedScenes == {i \in 1..Len(genBatch.calls) : genBatch.calls[i].status = "failed"}

\* C1: when every scene call of a storyboard batch has succeeded, in whatever
\* order, the stored result has one entry per dispatched prompt and entry i is
\* the image the service drew for the i-th dispatched prompt.
C1_SlotOrder ==
  (genBatch.mode = "storyboard" /\ genBatch.phase = "fulfilled") =>
    /\ ~IsNull(generatedImages)
    /\ Len(genBatch.requests) >= 1
    /\ Len(Val(generatedImages)) = Len(genBatch.requests)
    /\ \E r \in GenRatioInputs :
         \A i \in 1..Len(genBatch.requests) :
           Val(generatedImages)[i]
             = DataUrl(ImageOf(SceneFinalPrompt(genBatch.requests[i], r)))

\* two different scenes whose calls completed in reverse order, results stored
C1_Witness ==
  /\ genBatch.mode = "storyboard"
  /\ genBatch.phase = "fulfilled"
  /\ genBatch.requests = <<SceneA, SceneB>>
  /\ genBatch.order = <<2, 1>>
  /\ ~IsNull(generatedImages)

\* C2: in a storyboard batch, no result is exposed from the submit until every
\* call has succeeded; as soon as one scene call has failed the batch has
\* failed (error set, loading off) and the result stays null, whatever calls
\* succeeded before.
C2_AllOrNothing ==
  genBatch.mode = "storyboard" =>
    /\ genBatch.phase \in {"encoding", "awaiting", "rejected"} => IsNull(generatedImages)
    /\ FailedScenes # {} =>
         /\ genBatch.phase = "rejected"
         /\ IsNull(generatedImages)
         /\ ~IsNull(genError)
         /\ ~genIsLoading

\* scene 1 succeeded, then scene 2 failed
C2_Witness ==
  /\ genBatch.mode = "storyboard"
  /\ genBatch.phase = "rejected"
  /\ Len(genBatch.calls) = 2
  /\ genBatch.calls[1].status = "ok"
  /\ genBatch.calls[2].status = "failed"
  /\ IsNull(generatedImages)

\* C3: a single-image generation never stores fewer than 4 images: a short
\* answer of the service fails the generation.
C3_NoShortBatch ==
  (genBatch.mode = "single" /\ ~IsNull(generatedImages)) =>
    Len(Val(generatedImages)) = 4

\* C4: at most one sendMessage is in flight, and while one is in flight the
\* transcript changes only when that call settles (or the session is torn
\* down with its component).
C4_OneInFlight ==
  [][/\ Len(chatPending') <= 1
     /\ (chatPending # <<>> /\ Len(chatPending') >= Len(chatPending))
          => messages' = messages]_vars

\* the second message of a session is awaiting its response, the controls
\* through which a submit could come are disabled
C4_Witness ==
  /\ Len(chatPending) = 1
  /\ Len(messages) = 3
  /\ isSendDisabled
  /\ isChatInputDisabled

\* C5: when a sendMessage call throws, exactly one assistant message with the
\* apology text is appended after the user's message, and the session is
\* ready again (loading off, nothing in flight, the session kept).
C5_FailureApology ==
  [][(Len(chatPending') < Len(chatPending) /\ chatSettled' = "throws") =>
       /\ messages[Len(messages)].role = "user"
       /\ messages' = Append(messages,
            [role |-> "model", text |-> "Sorry, I encountered an error. Please try again."])
       /\ ~chatIsLoading'
       /\ chatPending' = <<>>
       /\ chat' = chat /\ ~IsNull(chat)]_vars

\* "hello" was sent, the call threw
C5_Witness ==
  /\ chatSettled = "throws"
  /\ messages = <<[role |-> "user", text |-> "hello"],
                  [role |-> "model", text |-> "Sorry, I encountered an error. Please try again."]>>
  /\ ~chatIsLoading

\* messages' is messages with one message appended
Grew == /\ Len(messages') = Len(messages) + 1
        /\ SubSeq(messages', 1, Len(messages)) = messages

\* C6: within a session the transcript only grows by appending: the user's
\* message in the step that accepts the submit, one assistant message in the
\* step in which the response arrives; so it alternates user, assistant, ...,
\* and ends with an unanswered user message exactly while a call is in flight.
C6_TranscriptOrder ==
  [][/\ \/ messages' = messages /\ chatPending' = chatPending
        \/ /\ Grew
           /\ messages'[Len(messages')] = [role |-> "user", text |-> userInput]
           /\ chatPending = <<>>
           /\ chatPending' = <<userInput>>
        \/ /\ Grew
           /\ messages'[Len(messages')].role = "model"
           /\ Len(chatPending) = 1
           /\ chatPending' = <<>>
        \/ activeTab' # activeTab /\ messages' = <<>>
     /\ \A i \in 1..Len(messages') :
          messages'[i].role = IF i % 2 = 1 THEN "user" ELSE "model"
     /\ (Len(messages') % 2 = 1) <=> (chatPending' # <<>>)]_vars

\* one exchange done, a second user message awaiting its response
C6_Witness ==
  /\ Len(messages) = 3
  /\ messages[1].role = "user"
  /\ messages[2].role = "model"
  /\ messages[3].role = "user"
  /\ chatPending = <<messages[3].text>>

\* the number of places at which needle occurs in hay
Occurrences(needle, hay) ==
  Cardinality({k \in 1..(Len(hay) - Len(needle) + 1) :
                 SubSeq(hay, k, k + Len(needle) - 1) = needle})

\* C7: the text part of an edit request in flight is the user's prompt as it
\* is when the ratio is "original", and otherwise the prompt followed by the
\* ratio directive, which then occurs in it exactly once.
C7_RatioDirective ==
  edBatch.phase = "awaiting" =>
    IF edAspectRatio = "original"
    THEN /\ edBatch.request.text = edPrompt
         /\ Occurrences("Change the aspect ratio", edBatch.request.text) = 0
    ELSE /\ edBatch.request.text
              = edPrompt \o ". Change the aspect ratio of the image to "
                         \o edAspectRatio \o "."
         /\ Occurrences("Change the aspect ratio", edBatch.request.text) = 1

\* an edit in flight with a ratio chosen
C7_Witness ==
  /\ edBatch.phase = "awaiting"
  /\ edAspectRatio = "1:1"
  /\ edBatch.request.text
       = "add a retro filter. Change the aspect ratio of the image to 1:1."

\* a step in which handleGenerate (handleEdit) ran and left another outcome
GenSubmitted ==
  /\ activeTab = "Generate" /\ activeTab' = "Generate"
  /\ ~genIsLoading
  /\ <<genBatch'.phase, genBatch'.mode>> # <<genBatch.phase, genBatch.mode>>
EdSubmitted ==
  /\ activeTab = "Edit" /\ activeTab' = "Edit"
  /\ ~edIsLoading
  /\ edBatch'.phase # edBatch.phase

\* the handler returned at its validation: no read, no call, not loading
GenShortCircuited ==
  genBatch.phase = "invalid" /\ genBatch.calls = <<>> /\ ~genIsLoading
EdShortCircuited ==
  edBatch.phase = "invalid" /\ edBatch.calls = <<>> /\ ~edIsLoading

\* C8: a single-image submit with an empty prompt, a storyboard submit whose
\* scenes are all blank, and an edit submit with an empty prompt or no image
\* each set the validation message and issue no call.
C8_ValidationFirst ==
  [][/\ (GenSubmitted /\ mode = "single" /\ genPrompt = "") =>
          /\ genError' = Some("Please enter a prompt.")
          /\ GenShortCircuited'
     /\ (GenSubmitted /\ mode = "storyboard"
           /\ \A i \in 1..Len(storyboardPrompts) : Trim(storyboardPrompts[i]) = "") =>
          /\ genError' = Some("Please enter a prompt for at least one scene.")
          /\ GenShortCircuited'
     /\ (EdSubmitted /\ (edPrompt = "" \/ IsNull(originalImage))) =>
          /\ edError' = Some("Please upload an image and provide an editing prompt.")
          /\ EdShortCircuited']_vars

\* a storyboard of two blank scenes was submitted
C8_Witness ==
  /\ genBatch.phase = "invalid"
  /\ genBatch.mode = "storyboard"
  /\ storyboardPrompts = <<"", " ">>
  /\ genError = Some("Please enter a prompt for at least one scene.")

\* C9: an edit in flight has exactly 4 calls; edited images are exposed only
\* when all 4 calls returned image data, and then there are exactly 4, one per
\* call; once a call has failed, or all have answered and one carried no image
\* data, the edit has failed and no edited image is exposed.
C9_EditFanOut ==
  /\ edBatch.phase = "awaiting" => Len(edBatch.calls) = 4
  /\ ~IsNull(editedImages) =>
       /\ edBatch.phase = "fulfilled"
       /\ Len(Val(editedImages)) = 4
       /\ \A i \in 1..4 :
            /\ edBatch.calls[i].status = "ok"
            /\ Val(editedImages)[i] = DataUrl(edBatch.calls[i].value)
  /\ (\/ \E i \in 1..Len(edBatch.calls) : edBatch.calls[i].status = "failed"
      \/ /\ \E i \in 1..Len(edBatch.calls) : edBatch.calls[i].status = "empty"
         /\ Pending(edBatch.calls) = {}) =>
       /\ edBatch.phase = "rejected"
       /\ IsNull(editedImages)

\* three calls returned an image, one answered without image data
C9_Witness ==
  /\ edBatch.phase = "rejected"
  /\ Len(edBatch.calls) = 4
  /\ edBatch.calls[2].status = "empty"
  /\ \A i \in {1, 3, 4} : edBatch.calls[i].status = "ok"
  /\ IsNull(editedImages)
  /\ edError = Some("Failed to edit image. Please check the console for details.")

\* C10 as stated: the failure reported for a storyboard batch is the failing
\* scene's, it tells which prompt of the batch failed, and no result is exposed.
C10_IdentifiesPrompt ==
  (genBatch.mode = "storyboard" /\ genBatch.phase = "rejected" /\ FailedScenes # {}) =>
    \E f \in FailedScenes :
      /\ genError = Some(SceneError(genBatch.requests[f]))
      /\ IsNull(generatedImages)
      /\ \A j \in 1..Len(genBatch.requests) :
           SceneError(genBatch.requests[j]) = Val(genError)
             => genBatch.requests[j] = genBatch.requests[f]

\* C10, amended: the failure reported is that of the first scene call to fail
\* (the only one the handler sees), the message quotes the first 20 characters
\* of that scene's prompt, and no result is exposed.
C10_QuotesPromptPrefix ==
  (genBatch.mode = "storyboard" /\ genBatch.phase = "rejected" /\ FailedScenes # {}) =>
    /\ FailedScenes = {genBatch.order[Len(genBatch.order)]}
    /\ \A f \in FailedScenes :
         genError = Some("Failed to generate scene: \""
                           \o Substring0(genBatch.requests[f], 20)
                           \o "...\". Check console for details.")
    /\ IsNull(generatedImages)

\* scene 1 completed, then scene 2 failed; both prompts start alike
C10_Witness ==
  /\ genBatch.mode = "storyboard"
  /\ genBatch.phase = "rejected"
  /\ genBatch.requests = <<SceneA, SceneB>>
  /\ genBatch.order = <<1, 2>>
  /\ FailedScenes = {2}
  /\ genError = Some("Failed to generate scene: \"a hero discovers a g...\". Check console for details.")

\* C11: whenever a storyboard batch or an edit is awaiting its calls, or any
\* call of it has completed, every call of the batch has been dispatched: K
\* scene calls, one per dispatched prompt, and 4 edit calls.
C11_FanOut ==
  /\ (genBatch.mode = "storyboard"
        /\ (genBatch.phase = "awaiting" \/ genBatch.order # <<>>)) =>
       /\ Len(genBatch.requests) >= 1
       /\ Len(genBatch.calls) = Len(genBatch.requests)
  /\ (genBatch.mode = "storyboard" /\ genBatch.phase = "awaiting") =>
       Len(genBatch.sent) = Len(genBatch.requests)
  /\ (\/ edBatch.phase = "awaiting"
      \/ \E i \in 1..Len(edBatch.calls) : edBatch.calls[i].status # "pending") =>
       Len(edBatch.calls) = 4

\* two scene calls out, neither completed yet
C11_Witness ==
  /\ genBatch.mode = "storyboard"
  /\ genBatch.phase = "awaiting"
  /\ Len(genBatch.requests) = 2
  /\ Pending(genBatch.calls) = {1, 2}
  /\ genBatch.order = <<>>

\* the number of calls one generate submit is to cause
GenPrescribed(b) == IF b.mode = "single" THEN 1 ELSE Len(b.requests)

NoDuplicates(seq) == \A i, j \in 1..Len(seq) : i # j => seq[i] # seq[j]

\* a step that puts calls out: the list of calls grows, or a completed call is
\* pending again
CallsIssued(before, after) ==
  \/ Len(after) > Len(before)
  \/ \E i \in 1..Len(before) :
       before[i].status # "pending" /\ i <= Len(after) /\ after[i].status = "pending"

\* C12: a batch never has more calls than prescribed (1 for a single image,
\* K for K scenes, 4 for an edit, 1 for a chat message); every call completes
\* at most once and is not in flight again afterwards; and calls are put out
\* only by a user submit (the loading flag goes from off to on) or by the
\* dispatch that ends the file reads of that submit.
C12_NoRetry ==
  [][/\ Len(genBatch'.calls) <= GenPrescribed(genBatch')
     /\ Len(edBatch'.calls) <= 4
     /\ Len(chatPending') <= 1
     /\ Len(genBatch'.order) <= Len(genBatch'.calls)
     /\ NoDuplicates(genBatch'.order)
     /\ \A k \in 1..Len(genBatch'.order) :
          genBatch'.calls[genBatch'.order[k]].status # "pending"
     /\ CallsIssued(genBatch.calls, genBatch'.calls) =>
          \/ ~genIsLoading /\ genIsLoading'
          \/ genBatch.phase = "encoding" /\ genBatch.calls = <<>>
     /\ (genBatch'.phase = "encoding" /\ genBatch.phase # "encoding") =>
          ~genIsLoading /\ genIsLoading'
     /\ CallsIssued(edBatch.calls, edBatch'.calls) =>
          /\ edBatch.phase \in {"readingOriginal", "readingReference"}
          /\ edBatch.calls = <<>>
     /\ (edBatch'.phase = "readingOriginal" /\ edBatch.phase # "readingOriginal") =>
          ~edIsLoading /\ edIsLoading'
     /\ Len(chatPending') > Len(chatPending) =>
          /\ ~chatIsLoading /\ chatIsLoading'
          /\ messages' = Append(messages, [role |-> "user", text |-> userInput])
     /\ (Len(chatPending') < Len(chatPending) /\ activeTab' = activeTab) =>
          Len(messages') = Len(messages) + 1]_vars

\* a storyboard batch has failed: its failed call is not in flight again and
\* nothing is loading
C12_Witness ==
  /\ genBatch.mode = "storyboard"
  /\ genBatch.phase = "rejected"
  /\ Len(genBatch.calls) = 2
  /\ genBatch.order = <<2>>
  /\ genBatch.calls[2].status = "failed"
  /\ genBatch.calls[1].status = "pending"
  /\ ~genIsLoading

\* C13 as stated: no session is opened before the first message is submitted.
C13_LazySession == ~IsNull(chat) => Len(messages) >= 1

\* C13, amended: the Chatbot holds at most one session handle; the handle is
\* created when the component is mounted, before any message is submitted, is
\* not replaced while the component stays mounted, and is gone once it is
\* unmounted; a call is in flight only on an existing session.
C13_SessionOnMount ==
  [][/\ chat' \in {Null, Some(createChatSession)}
     /\ (chat' # chat /\ ~IsNull(chat')) =>
          /\ IsNull(chat)
          /\ activeTab = "Chat" /\ activeTab' = "Chat"
          /\ messages = <<>> /\ chatPending = <<>>
     /\ (~IsNull(chat) /\ activeTab' = activeTab) => chat' = chat
     /\ activeTab' # "Chat" => IsNull(chat')
     /\ chatPending' # <<>> => ~IsNull(chat')]_vars

\* the session exists and nothing has been typed or sent yet
C13_Witness ==
  /\ activeTab = "Chat"
  /\ ~IsNull(chat)
  /\ messages = <<>>
  /\ userInput = ""
  /\ chatSettled = "none"

\* a step in which a generate (edit) submit fails: at its validation, at a
\* file read or at the capability
GenFailedNow ==
  genBatch'.phase \in {"invalid", "rejected"} /\ genBatch'.phase # genBatch.phase
EdFailedNow ==
  edBatch'.phase \in {"invalid", "rejected"} /\ edBatch'.phase # edBatch.phase

C15_SubmitPrecondition ==
  [][/\ Len(chatPending') > Len(chatPending) =>
          /\ Trim(userInput) # ""
          /\ ~IsNull(chat)
          /\ ~chatIsLoading
     /\ (chatPending = <<>> /\ (Trim(userInput) = "" \/ IsNull(chat))
           /\ activeTab' = activeTab) =>
          /\ messages' = messages
          /\ chatIsLoading' = chatIsLoading
          /\ chatPending' = chatPending]_vars

\* one exchange done, the session ready, a blank input typed: Enter is refused
C15_Witness ==
  /\ ~IsNull(chat)
  /\ ~chatIsLoading
  /\ chatPending = <<>>
  /\ userInput = " "
  /\ Len(messages) = 2

\* a handleGenerate (handleEdit) invocation that has not ended yet
GenInFlight(b) == b.phase \in {"encoding", "awaiting"}
EdInFlight(b) == b.phase \in {"readingOriginal", "readingReference", "awaiting"}

\* C16: loading is on exactly while a batch is in flight, the submit button is
\* then disabled, and until the batch ends every step of the mounted component
\* belongs to that batch: its mode and requests stay, its reads only go down,
\* its dispatch is not repeated and its completed calls stay completed.
C16_OneBatch ==
  [][/\ genIsLoading' <=> GenInFlight(genBatch')
     /\ edIsLoading' <=> EdInFlight(edBatch')
     /\ GenInFlight(genBatch') => isGenerateDisabled'
     /\ EdInFlight(edBatch') => isEditDisabled'
     /\ (GenInFlight(genBatch) /\ activeTab' = activeTab) =>
          /\ genBatch'.mode = genBatch.mode
          /\ genBatch'.requests = genBatch.requests
          /\ genBatch'.reads <= genBatch.reads
          /\ genBatch.phase = "awaiting" =>
               /\ genBatch'.phase # "encoding"
               /\ Len(genBatch'.calls) = Len(genBatch.calls)
               /\ \A i \in 1..Len(genBatch.calls) :
                    genBatch.calls[i].status # "pending" =>
                      genBatch'.calls[i].status = genBatch.calls[i].status
     /\ (EdInFlight(edBatch) /\ activeTab' = activeTab) =>
          /\ edBatch'.phase # "rejected" =>
               /\ edBatch'.prompt = edBatch.prompt
               /\ edBatch'.image = edBatch.image
               /\ edBatch'.reference = edBatch.reference
          /\ edBatch'.phase # "readingOriginal" \/ edBatch.phase = "readingOriginal"
          /\ edBatch.phase = "awaiting" =>
               /\ ~(edBatch'.phase \in {"readingOriginal", "readingReference"})
               /\ Len(edBatch'.calls) = Len(edBatch.calls)
               /\ \A i \in 1..Len(edBatch.calls) :
                    edBatch.calls[i].status # "pending" =>
                      edBatch'.calls[i].status = edBatch.calls[i].status]_vars

\* a storyboard batch with one scene done and one pending: the scenes are
\* valid, so the button is disabled by the loading flag alone
C16_Witness ==
  /\ genBatch.mode = "storyboard"
  /\ genBatch.phase = "awaiting"
  /\ genBatch.order = <<1>>
  /\ Pending(genBatch.calls) = {2}
  /\ mode = "storyboard"
  /\ ValidPrompts(storyboardPrompts) # <<>>
  /\ isGenerateDisabled

\* C17: when the credential is absent (unset or empty) as the service module
\* is loaded, the module throws and nothing runs: no component is mounted, no
\* call is out, no session exists; so wherever a component is mounted, a call
\* is out or a session exists, the credential is present.
C17_CredentialCheck ==
  /\ (IsNull(API_KEY) \/ API_KEY = Some("")) =>
       /\ ModuleError(API_KEY) = Some("API_KEY environment variable not set")
       /\ activeTab = ""
       /\ genBatch.calls = <<>> /\ edBatch.calls = <<>> /\ chatPending = <<>>
       /\ IsNull(chat)
  /\ (\/ activeTab \in Tabs
      \/ genBatch.calls # <<>> \/ edBatch.calls # <<>> \/ chatPending # <<>>
      \/ ~IsNull(chat)) =>
       /\ ~IsNull(API_KEY) /\ Val(API_KEY) # ""
       /\ IsNull(ModuleError(API_KEY))

\* the process started without the variable: nothing is mounted
C17_Witness ==
  /\ IsNull(API_KEY)
  /\ activeTab = ""
  /\ ~IsNull(ModuleError(API_KEY))

\* C18: loading is on only while the submit has a file read or a call
\* outstanding: once all of them have settled, and after a submit refused at
\* its validation, loading is off.
C18_LoadingResets ==
  /\ genIsLoading =>
       \/ genBatch.phase = "encoding" /\ genBatch.reads > 0
       \/ genBatch.phase = "awaiting" /\ Pending(genBatch.calls) # {}
  /\ edIsLoading =>
       \/ edBatch.phase \in {"readingOriginal", "readingReference"}
       \/ edBatch.phase = "awaiting" /\ Pending(edBatch.calls) # {}
  /\ chatIsLoading => chatPending # <<>>
  /\ genBatch.phase \in {"invalid", "fulfilled", "rejected"} => ~genIsLoading
  /\ edBatch.phase \in {"invalid", "fulfilled", "rejected"} => ~edIsLoading
  /\ chatSettled # "none" => (chatIsLoading <=> chatPending # <<>>)

\* an edit submit with an image and no prompt was refused at its validation
C18_Witness ==
  /\ edBatch.phase = "invalid"
  /\ ~edIsLoading
  /\ ~IsNull(originalImage)
  /\ edPrompt = ""

\* C19: while the results of a storyboard batch are shown in storyboard mode,
\* the image in slot i was generated from the i-th prompt of the scene list,
\* which is also the prompt its file is named after.
C19_SlotIsScene ==
  (genBatch.mode = "storyboard" /\ genBatch.phase = "fulfilled"
     /\ mode = "storyboard" /\ ~IsNull(generatedImages)) =>
    \A i \in 1..Len(Val(generatedImages)) :
      /\ i <= Len(storyboardPrompts)
      /\ SceneLabel(i) = Some("Scene " \o ToString(i))
      /\ FilenamePrompt(i) = storyboardPrompts[i]
      /\ \E r \in GenRatioInputs :
           Val(generatedImages)[i]
             = DataUrl(ImageOf(SceneFinalPrompt(storyboardPrompts[i], r)))

\* C20: while a generation batch is in flight and while its results are
\* shown, the mode of the component is the mode the batch was submitted in.
C20_ModeStable ==
  (GenInFlight(genBatch) \/ ~IsNull(generatedImages)) => mode = genBatch.mode

\* C21: no generate, scene or edit call in flight carries a prompt that is
\* empty or only whitespace.
C21_NoBlankPrompt ==
  /\ genBatch.phase = "awaiting" =>
       \A i \in 1..Len(genBatch.requests) : Trim(genBatch.requests[i]) # ""
  /\ edBatch.phase = "awaiting" => Trim(edBatch.request.text) # ""

\* C22: in the generator and in the editor the error and the result are never
\* both present; a submit leaves both empty, and the step that ends a batch
\* sets exactly one of them.
C22_ResultOrError ==
  [][/\ IsNull(genError') \/ IsNull(generatedImages')
     /\ IsNull(edError') \/ IsNull(editedImages')
     /\ (~genIsLoading /\ genIsLoading') => IsNull(genError') /\ IsNull(generatedImages')
     /\ (~edIsLoading /\ edIsLoading') => IsNull(edError') /\ IsNull(editedImages')
     /\ (genIsLoading /\ ~genIsLoading' /\ activeTab' = activeTab) =>
          IsNull(genError') # IsNull(generatedImages')
     /\ (edIsLoading /\ ~edIsLoading' /\ activeTab' = activeTab) =>
          IsNull(edError') # IsNull(editedImages')]_vars

\* an edit whose first call threw: the error is set, no result is
C22_Witness ==
  /\ edBatch.phase = "rejected"
  /\ Len(edBatch.calls) = 4
  /\ edBatch.calls[1].status = "failed"
  /\ Pending(edBatch.calls) = {2, 3, 4}
  /\ ~IsNull(edError)
  /\ IsNull(editedImages)

C24_ResultsOfSource ==
  ~IsNull(editedImages) =>
    /\ ~IsNull(originalImage)
    /\ edBatch.phase = "fulfilled"
    /\ edBatch.request.image = Val(originalImage)
====
